---------------------------- MODULE Spec2Model ----------------------------
(***************************************************************************)
(* A model of the memory microbenchmarks of the repository:                *)
(*   src/dram_row_policy.c   the DRAM row-buffer policy experiment         *)
(*   src/memtest_allsizes.c  the memcpy sweep over the configured sizes    *)
(* Each main() is a sequential program; its position is a pc variable and  *)
(* every action is one statement (or one library call) of the source.      *)
(* The timestamp counter, the allocator, mlockall and fopen are the        *)
(* environment: their results are chosen nondeterministically.             *)
(***************************************************************************)
EXTENDS Integers, Sequences, FiniteSets, TLC

(* ------------------------------ bounds --------------------------------- *)
\* TEST_ITERATIONS of dram_row_policy.c is 100000; the model runs this many.
TestIterations == 2
\* A timed interval lasts 1..MaxCycles cycles.
MaxCycles == 2
\* REPEAT of memtest_allsizes.c is 200000, 50000, 20000, 8000 or 2000 by
\* size; the model keeps the five tiers and their order, scaled to
\* TrialScale + 2, + 1, + 1, + 0, + 0 trials.
TrialScale == 1
\* The selector argument is a string of at most MaxArgLen characters.
MaxArgLen == 2
\* flush_buffer is followed line by line for sizes 1..MaxFlushSize and
\* buffers at addresses up to MaxBufAddr.
MaxFlushSize == 130
MaxBufAddr == 64

(* ------------------------- program constants --------------------------- *)
LINE == 64

VARIABLES
    \* ---- dram_row_policy.c: main ----
    dpc,                  \* position in main
    i,                    \* loop index of the measurement loop
    row1, row2,           \* the two buffers: [st, cached, fill]
    first_access, second_access, different_row_access,
    sum_first, sum_second, sum_diff,
    conclusion,           \* the verdict lines printed, in order
    dlog,                 \* the events of the current trial, in order
    d_live,               \* heap blocks allocated and not yet freed
    d_uaf,                \* a buffer was used while not live
    d_mlock,              \* result of mlockall: "none", "ok", "failed"
    d_trials,             \* timed reads executed so far
    d_stderr,             \* diagnostics written to stderr
    d_exit                \* exit code, -1 while running

dvars == <<dpc, i, row1, row2, first_access, second_access,
           different_row_access, sum_first, sum_second, sum_diff,
           conclusion, dlog, d_live, d_uaf, d_mlock, d_trials, d_stderr, d_exit>>

VARIABLES
    \* ---- memtest_allsizes.c: main ----
    mpc,                  \* position in main
    argv,                 \* the arguments after the program name
    start_idx, end_idx,   \* the range of exponents[] to sweep (0-based)
    si,                   \* index of the current size
    rep,                  \* index of the current trial
    buf, bufcopy,         \* source and destination: [st, cached, fill]
    results_st, sorted_st,\* state of the two sample arrays
    results, sorted,      \* their contents (-1: not yet written)
    t_delta,              \* t1 - t0 of the trial just timed
    lat,                  \* the machine: cycles the rep-th timed copy takes
    fs,                   \* the directory: file name -> [exists, data]
    opened,               \* names fopen(.., "w") succeeded on, in order
    mlog,                 \* the events since the last loop test, in order
    m_trials,             \* timed copies executed for the current size
    started,              \* exponents whose measurement began, in order
    report,               \* the statistics lines printed, in order
    m_live, m_uaf, m_mlock, m_failed, m_stderr, m_exit

mvars == <<mpc, argv, start_idx, end_idx, si, rep, buf, bufcopy, results_st,
           sorted_st, results, sorted, t_delta, lat, fs, opened, mlog,
           m_trials, started, report, m_live, m_uaf, m_mlock, m_failed,
           m_stderr, m_exit>>

VARIABLES
    \* ---- flush_buffer(buf, size), line by line ----
    fpc,                  \* position in flush_buffer, then in its caller
    fbuf, fsize,          \* the arguments: the address and the byte count
    off,                  \* the loop variable
    cache,                \* the cache lines present in some cache level
    pending,              \* lines with a clflush issued and not yet ordered
    flog,                 \* the clflush and mfence instructions executed
    rd                    \* the read after the return: [line, hit]

fvars == <<fpc, fbuf, fsize, off, cache, pending, flog, rd>>

vars == <<dvars, mvars, fvars>>

Cycles == 1..MaxCycles

(* ------------------------------ helpers -------------------------------- *)
RECURSIVE SumSeq(_)
SumSeq(s) == IF s = <<>> THEN 0 ELSE Head(s) + SumSeq(Tail(s))

NullBuf == [st |-> "null", cached |-> FALSE, fill |-> 0]

\* posix_memalign(&p, 64, size): a fresh live block, contents not yet set
LiveBuf == [st |-> "live", cached |-> FALSE, fill |-> 0]

\* any access to a block that is not live is a use after release
Bad(b) == b.st # "live"

(* ======================= dram_row_policy.c ============================= *)

D_Init ==
    /\ dpc = "alloc"
    /\ i = 0
    /\ row1 = NullBuf /\ row2 = NullBuf
    /\ first_access = [k \in 1..TestIterations |-> 0]
    /\ second_access = [k \in 1..TestIterations |-> 0]
    /\ different_row_access = [k \in 1..TestIterations |-> 0]
    /\ sum_first = 0 /\ sum_second = 0 /\ sum_diff = 0
    /\ conclusion = <<>>
    /\ dlog = <<>>
    /\ d_live = 0
    /\ d_uaf = FALSE
    /\ d_mlock = "none"
    /\ d_trials = 0
    /\ d_stderr = <<>>
    /\ d_exit = -1

\* lines 59-63: both posix_memalign calls succeed
D_AllocOk ==
    /\ dpc = "alloc"
    /\ row1' = LiveBuf /\ row2' = LiveBuf
    /\ d_live' = d_live + 2
    /\ dpc' = "memset"
    /\ UNCHANGED <<i, first_access, second_access, different_row_access,
                   sum_first, sum_second, sum_diff, conclusion, dlog, d_uaf,
                   d_mlock, d_trials, d_stderr, d_exit>>

\* lines 59-63: the first or the second posix_memalign fails: return 1
D_AllocFail ==
    /\ dpc = "alloc"
    /\ \E firstFails \in BOOLEAN :
          /\ row1' = IF firstFails THEN NullBuf ELSE LiveBuf
          /\ d_live' = IF firstFails THEN d_live ELSE d_live + 1
    /\ d_stderr' = Append(d_stderr, "Memory allocation failed")
    /\ d_exit' = 1
    /\ dpc' = "exit"
    /\ UNCHANGED <<i, row2, first_access, second_access, different_row_access,
                   sum_first, sum_second, sum_diff, conclusion, dlog, d_uaf,
                   d_mlock, d_trials>>

\* lines 66-67: memset(row1, 0x5A), memset(row2, 0xA5); writing caches the lines
D_Memset ==
    /\ dpc = "memset"
    /\ row1' = [row1 EXCEPT !.fill = 90, !.cached = TRUE]
    /\ row2' = [row2 EXCEPT !.fill = 165, !.cached = TRUE]
    /\ d_uaf' = (d_uaf \/ Bad(row1) \/ Bad(row2))
    /\ dpc' = "mlock"
    /\ UNCHANGED <<i, first_access, second_access, different_row_access,
                   sum_first, sum_second, sum_diff, conclusion, dlog, d_live,
                   d_mlock, d_trials, d_stderr, d_exit>>

\* lines 70-72: mlockall succeeds
D_MlockOk ==
    /\ dpc = "mlock"
    /\ d_mlock' = "ok"
    /\ dpc' = "loop"
    /\ UNCHANGED <<i, row1, row2, first_access, second_access,
                   different_row_access, sum_first, sum_second, sum_diff,
                   conclusion, dlog, d_live, d_uaf, d_trials, d_stderr, d_exit>>

\* lines 70-72: mlockall fails: the warning, and the run goes on
D_MlockFail ==
    /\ dpc = "mlock"
    /\ d_mlock' = "failed"
    /\ d_stderr' = Append(d_stderr, "Warning: mlockall failed")
    /\ dpc' = "loop"
    /\ UNCHANGED <<i, row1, row2, first_access, second_access,
                   different_row_access, sum_first, sum_second, sum_diff,
                   conclusion, dlog, d_live, d_uaf, d_trials, d_exit>>

\* line 80: the loop test
D_Loop ==
    /\ dpc = "loop"
    /\ dpc' = IF i < TestIterations THEN "flush1" ELSE "stats"
    /\ dlog' = <<>>
    /\ UNCHANGED <<i, row1, row2, first_access, second_access,
                   different_row_access, sum_first, sum_second, sum_diff,
                   conclusion, d_live, d_uaf, d_mlock, d_trials, d_stderr, d_exit>>

Ev(op, b) == [op |-> op, buf |-> b]

\* line 82: flush_buffer(row1, ROW_SIZE)
D_Flush1 ==
    /\ dpc = "flush1"
    /\ row1' = [row1 EXCEPT !.cached = FALSE]
    /\ d_uaf' = (d_uaf \/ Bad(row1))
    /\ dlog' = Append(dlog, Ev("flush", "row1"))
    /\ dpc' = "start1"
    /\ UNCHANGED <<i, row2, first_access, second_access, different_row_access,
                   sum_first, sum_second, sum_diff, conclusion, d_live,
                   d_mlock, d_trials, d_stderr, d_exit>>

\* rdtsc_start(): lines 85, 92, 102
D_Start(at, next) ==
    /\ dpc = at
    /\ dlog' = Append(dlog, Ev("rdtsc_start", "-"))
    /\ dpc' = next
    /\ UNCHANGED <<i, row1, row2, first_access, second_access,
                   different_row_access, sum_first, sum_second, sum_diff,
                   conclusion, d_live, d_uaf, d_mlock, d_trials, d_stderr, d_exit>>

\* the volatile read of the first word of row1: lines 87, 93
D_ReadRow1(at, next) ==
    /\ dpc = at
    /\ dlog' = Append(dlog, Ev(IF row1.cached THEN "hit" ELSE "miss", "row1"))
    /\ row1' = [row1 EXCEPT !.cached = TRUE]
    /\ d_uaf' = (d_uaf \/ Bad(row1))
    /\ d_trials' = d_trials + 1
    /\ dpc' = next
    /\ UNCHANGED <<i, row2, first_access, second_access, different_row_access,
                   sum_first, sum_second, sum_diff, conclusion, d_live,
                   d_mlock, d_stderr, d_exit>>

\* rdtsc_end() and the subtraction: the interval lasted c cycles
D_End1 ==
    /\ dpc = "end1"
    /\ \E c \in Cycles : first_access' = [first_access EXCEPT ![i + 1] = c]
    /\ dlog' = Append(dlog, Ev("rdtsc_end", "-"))
    /\ dpc' = "start2"
    /\ UNCHANGED <<i, row1, row2, second_access, different_row_access,
                   sum_first, sum_second, sum_diff, conclusion, d_live, d_uaf,
                   d_mlock, d_trials, d_stderr, d_exit>>

\* a second access that invalidates row1 again before it is timed
D_Start2AfterFlush ==
    /\ dpc = "start2"
    /\ row1' = [row1 EXCEPT !.cached = FALSE]
    /\ d_uaf' = (d_uaf \/ Bad(row1))
    /\ dlog' = dlog \o <<Ev("flush", "row1"), Ev("rdtsc_start", "-")>>
    /\ dpc' = "read2"
    /\ UNCHANGED <<i, row2, first_access, second_access, different_row_access,
                   sum_first, sum_second, sum_diff, conclusion, d_live,
                   d_mlock, d_trials, d_stderr, d_exit>>

\* lines 91-92: the second access follows the first with no flush in between
D_Start2 == D_Start("start2", "read2")

D_End2 ==
    /\ dpc = "end2"
    /\ \E c \in Cycles : second_access' = [second_access EXCEPT ![i + 1] = c]
    /\ dlog' = Append(dlog, Ev("rdtsc_end", "-"))
    /\ dpc' = "flush2"
    /\ UNCHANGED <<i, row1, row2, first_access, different_row_access,
                   sum_first, sum_second, sum_diff, conclusion, d_live, d_uaf,
                   d_mlock, d_trials, d_stderr, d_exit>>

\* line 101: flush_buffer(row2, ROW_SIZE)
D_Flush2 ==
    /\ dpc = "flush2"
    /\ row2' = [row2 EXCEPT !.cached = FALSE]
    /\ d_uaf' = (d_uaf \/ Bad(row2))
    /\ dlog' = Append(dlog, Ev("flush", "row2"))
    /\ dpc' = "start3"
    /\ UNCHANGED <<i, row1, first_access, second_access, different_row_access,
                   sum_first, sum_second, sum_diff, conclusion, d_live,
                   d_mlock, d_trials, d_stderr, d_exit>>

\* line 104: the read of row2
D_Read3 ==
    /\ dpc = "read3"
    /\ dlog' = Append(dlog, Ev(IF row2.cached THEN "hit" ELSE "miss", "row2"))
    /\ row2' = [row2 EXCEPT !.cached = TRUE]
    /\ d_uaf' = (d_uaf \/ Bad(row2))
    /\ d_trials' = d_trials + 1
    /\ dpc' = "end3"
    /\ UNCHANGED <<i, row1, first_access, second_access, different_row_access,
                   sum_first, sum_second, sum_diff, conclusion, d_live,
                   d_mlock, d_stderr, d_exit>>

\* lines 106-109: rdtsc_end, the sample, i++
D_End3 ==
    /\ dpc = "end3"
    /\ \E c \in Cycles :
          different_row_access' = [different_row_access EXCEPT ![i + 1] = c]
    /\ dlog' = Append(dlog, Ev("rdtsc_end", "-"))
    /\ i' = i + 1
    /\ dpc' = "loop"
    /\ UNCHANGED <<row1, row2, first_access, second_access,
                   sum_first, sum_second, sum_diff, conclusion, d_live, d_uaf,
                   d_mlock, d_trials, d_stderr, d_exit>>

\* lines 112-121: the sums; each mean is its sum over TEST_ITERATIONS
D_Stats ==
    /\ dpc = "stats"
    /\ sum_first' = SumSeq(first_access)
    /\ sum_second' = SumSeq(second_access)
    /\ sum_diff' = SumSeq(different_row_access)
    /\ dpc' = "classify"
    /\ UNCHANGED <<i, row1, row2, first_access, second_access,
                   different_row_access, conclusion, dlog, d_live, d_uaf,
                   d_mlock, d_trials, d_stderr, d_exit>>

\* the threshold test as a >= b * 1.5 instead of >
SpeedupExceedsInclusive(sf, ss) ==
    IF ss = 0 THEN sf > 0 ELSE 2 * sf >= 3 * ss

\* lines 130, 133: (double)(mean_first / mean_second) > 1.5, the means being
\* sf / TEST_ITERATIONS and ss / TEST_ITERATIONS.  x/0 is +inf (or NaN for
\* 0/0, which compares false).  The conversion to double rounds to 53 bits,
\* ties to even: the quotient rounds to a double above 1.5 iff it exceeds
\* 1.5 + 2^-53, that is iff (2 sf - 3 ss) * 2^52 > ss.
SpeedupExceeds(sf, ss) ==
    IF ss = 0 THEN sf > 0
    ELSE LET k == 2 * sf - 3 * ss
         IN  k > 0 /\ ((ss \div (2 ^ 26)) \div (2 ^ 26)) < k

\* lines 133-140
D_Classify ==
    /\ dpc = "classify"
    /\ conclusion' = Append(conclusion,
                            IF SpeedupExceeds(sum_first, sum_second)
                            THEN "OPEN-ROW" ELSE "CLOSED-ROW")
    /\ dpc' = "free"
    /\ UNCHANGED <<i, row1, row2, first_access, second_access,
                   different_row_access, sum_first, sum_second, sum_diff,
                   dlog, d_live, d_uaf, d_mlock, d_trials, d_stderr, d_exit>>

\* lines 142-144: free(row1); free(row2); return 0
D_Free ==
    /\ dpc = "free"
    /\ row1' = [row1 EXCEPT !.st = "freed"]
    /\ row2' = [row2 EXCEPT !.st = "freed"]
    /\ d_uaf' = (d_uaf \/ Bad(row1) \/ Bad(row2))
    /\ d_live' = d_live - 2
    /\ d_exit' = 0
    /\ dpc' = "exit"
    /\ UNCHANGED <<i, first_access, second_access, different_row_access,
                   sum_first, sum_second, sum_diff, conclusion, dlog,
                   d_mlock, d_trials, d_stderr>>

(* ======================= memtest_allsizes.c ============================ *)

\* line 69
exponents == <<6, 7, 8, 9, 10, 11, 12, 13, 14, 15, 16, 20, 21>>
\* line 70
n_sizes == Len(exponents)

RECURSIVE Pow2(_)
Pow2(n) == IF n = 0 THEN 1 ELSE 2 * Pow2(n - 1)

\* line 102: (size_t)1 << x
SizeOf(x) == Pow2(x)

\* lines 105-114: REPEAT by size (the tiers scaled, see TrialScale)
RepeatFor(size) ==
    IF size <= 4096 THEN TrialScale + 2
    ELSE IF size <= 65536 THEN TrialScale + 1
    ELSE IF size <= 262144 THEN TrialScale + 1
    ELSE IF size <= 1048576 THEN TrialScale
    ELSE TrialScale

MaxRepeat == TrialScale + 2

(* ---- atoi(argv[1]), line 77 ---- *)
Digits == <<"0", "1", "2", "3", "4", "5", "6", "7", "8", "9">>
IsDigit(c) == \E d \in 1..10 : Digits[d] = c
DigitVal(c) == (CHOOSE d \in 1..10 : Digits[d] = c) - 1

RECURSIVE SkipSpace(_)
SkipSpace(s) == IF s # <<>> /\ Head(s) = " " THEN SkipSpace(Tail(s)) ELSE s

RECURSIVE ParseDigits(_, _)
ParseDigits(s, acc) ==
    IF s # <<>> /\ IsDigit(Head(s))
    THEN ParseDigits(Tail(s), 10 * acc + DigitVal(Head(s)))
    ELSE acc

\* leading white space, an optional sign, then digits up to the first
\* character that is not one; 0 when there is no digit
atoi(s) ==
    LET t == SkipSpace(s)
        signed == t # <<>> /\ Head(t) \in {"-", "+"}
        u == IF signed THEN Tail(t) ELSE t
        v == ParseDigits(u, 0)
    IN  IF signed /\ Head(t) = "-" THEN 0 - v ELSE v

\* lines 80-85: the index of x in exponents[] (0-based), -1 when absent
FindExponent(x) ==
    IF \E k \in 1..n_sizes : exponents[k] = x
    THEN (CHOOSE k \in 1..n_sizes :
             exponents[k] = x /\ \A j \in 1..(k - 1) : exponents[j] # x) - 1
    ELSE -1

\* a selector that sets start_idx only: the sweep runs from the size on
SelectRangeStartOnly(args) ==
    IF Len(args) >= 1
    THEN LET x == atoi(args[1])
             found == IF x # 0 THEN FindExponent(x) ELSE -1
         IN  IF found >= 0 THEN <<found, n_sizes - 1>> ELSE <<0, n_sizes - 1>>
    ELSE <<0, n_sizes - 1>>

\* lines 73-90: <<start_idx, end_idx>> from the arguments
SelectRange(args) ==
    IF Len(args) >= 1
    THEN LET x == atoi(args[1])
             found == IF x # 0 THEN FindExponent(x) ELSE -1
         IN  IF found >= 0 THEN <<found, found>> ELSE <<0, n_sizes - 1>>
    ELSE <<0, n_sizes - 1>>

(* ---- the CSV text, lines 163-173 ---- *)
\* snprintf(fname, .., "memcpy_2pow%d_%zub.csv", x, size): the name is
\* determined by the pair
Fname(x, size) == <<x, size>>
FNames == {Fname(exponents[k], SizeOf(exponents[k])) : k \in 1..n_sizes}

\* "%zu" / "%" PRIu64: the decimal digits of n >= 0
RECURSIVE ToDecimal(_)
ToDecimal(n) ==
    IF n < 10 THEN <<Digits[n + 1]>>
    ELSE ToDecimal(n \div 10) \o <<Digits[(n % 10) + 1]>>

\* line 169
CsvHeader == <<"r", "e", "p", ",", "c", "y", "c", "l", "e", "s", "\n">>

\* line 171: "%zu,%" PRIu64 "\n"
CsvRow(idx, v) == ToDecimal(idx) \o <<",">> \o ToDecimal(v) \o <<"\n">>

RECURSIVE CsvRows(_, _)
CsvRows(arr, n) ==
    IF n = 0 THEN <<>> ELSE CsvRows(arr, n - 1) \o CsvRow(n - 1, arr[n])

\* fopen mode "a" would keep what the file held
OpenForAppend(old) == old

\* line 164: fopen(fname, "w") creates the file or truncates it
OpenForWrite(old) == [exists |-> TRUE, data |-> <<>>]

(* ---- statistics, lines 56-64 and 183-199 ---- *)
cmp_uint64(va, vb) == IF va < vb THEN -1 ELSE IF va > vb THEN 1 ELSE 0

\* qsort with cmp_uint64: e inserted before the first element that
\* compares greater
RECURSIVE InsertSorted(_, _)
InsertSorted(e, s) ==
    IF s = <<>> THEN <<e>>
    ELSE IF cmp_uint64(e, Head(s)) <= 0 THEN <<e>> \o s
    ELSE <<Head(s)>> \o InsertSorted(e, Tail(s))

RECURSIVE qsort(_)
qsort(arr) == IF arr = <<>> THEN <<>> ELSE InsertSorted(Head(arr), qsort(Tail(arr)))

\* the lower of the two middle elements for an even count
MedianLowerMiddle(srt, n) == IF n % 2 = 0 THEN srt[n \div 2] ELSE srt[(n \div 2) + 1]

\* line 199: sorted[REPEAT / 2] in both branches (0-based)
Median(srt, n) == IF n % 2 = 0 THEN srt[(n \div 2) + 1] ELSE srt[(n \div 2) + 1]

RECURSIVE SumSq(_)
SumSq(s) == IF s = <<>> THEN 0 ELSE Head(s) * Head(s) + SumSq(Tail(s))

\* lines 187-199.  mean = sum / count; stddev = sqrt(var_num) / count with
\* var_num = count * sum of squares - sum^2
Summarize(res, srt, n) ==
    [count |-> n, sum |-> SumSeq(res),
     var_num |-> n * SumSq(res) - SumSeq(res) * SumSeq(res),
     min |-> srt[1], max |-> srt[n], median |-> Median(srt, n)]

(* ---- main ---- *)
ArgChars == {" ", "-", "0", "1", "2", "6", "a"}
ArgStrings == UNION {[1..n -> ArgChars] : n \in 0..MaxArgLen}

\* what a previous run left in a file: more rows than any REPEAT
StaleData == CsvHeader \o CsvRows([k \in 1..(MaxRepeat + 1) |-> 7], MaxRepeat + 1)

CurX == exponents[si + 1]
CurSize == SizeOf(CurX)
REPEAT == RepeatFor(CurSize)

M_Init ==
    /\ mpc = "args"
    /\ argv \in {<<>>} \cup {<<s>> : s \in ArgStrings}
    /\ start_idx = 0 /\ end_idx = n_sizes - 1
    /\ si = 0 /\ rep = 0
    /\ buf = NullBuf /\ bufcopy = NullBuf
    /\ results_st = "null" /\ sorted_st = "null"
    /\ results = <<>> /\ sorted = <<>>
    /\ t_delta = 0
    /\ lat \in [1..MaxRepeat -> Cycles]
    /\ \E stale \in BOOLEAN :
          fs = [f \in FNames |-> IF stale THEN [exists |-> TRUE, data |-> StaleData]
                                 ELSE [exists |-> FALSE, data |-> <<>>]]
    /\ opened = <<>>
    /\ mlog = <<>>
    /\ m_trials = 0
    /\ started = <<>>
    /\ report = <<>>
    /\ m_live = 0 /\ m_uaf = FALSE /\ m_mlock = "none" /\ m_failed = "none"
    /\ m_stderr = <<>> /\ m_exit = -1


\* the variables main leaves alone at every statement but the named ones
m_cfg == <<argv, start_idx, end_idx, lat>>
m_env == <<m_mlock, m_failed, m_stderr, m_exit>>
m_heap == <<buf, bufcopy, results_st, sorted_st, m_live>>
m_data == <<results, sorted, t_delta>>
m_out == <<fs, opened, report>>

\* lines 73-90: the selector argument.  argv is not read again: the model
\* drops it here.
M_Args ==
    /\ mpc = "args"
    /\ start_idx' = SelectRange(argv)[1]
    /\ end_idx' = SelectRange(argv)[2]
    /\ argv' = <<>>
    /\ mpc' = "mlock"
    /\ UNCHANGED <<lat, si, rep, mlog, m_trials, started, m_uaf>>
    /\ UNCHANGED <<m_env, m_heap, m_data, m_out>>

\* lines 93-97: mlockall succeeds; line 100: si = start_idx
M_MlockOk ==
    /\ mpc = "mlock"
    /\ m_mlock' = "ok"
    /\ si' = start_idx
    /\ mpc' = "loopsi"
    /\ UNCHANGED <<rep, mlog, m_trials, started, m_uaf, m_failed, m_stderr, m_exit>>
    /\ UNCHANGED <<m_cfg, m_heap, m_data, m_out>>

\* a failed mlockall treated like a failed allocation
M_MlockFailFatal ==
    /\ mpc = "mlock"
    /\ m_mlock' = "failed"
    /\ m_stderr' = Append(m_stderr, "warning: mlockall failed")
    /\ m_exit' = 1
    /\ mpc' = "exit"
    /\ UNCHANGED <<si, rep, mlog, m_trials, started, m_uaf, m_failed>>
    /\ UNCHANGED <<m_cfg, m_heap, m_data, m_out>>

\* lines 93-94: mlockall fails: the warning, and the run goes on
M_MlockFail ==
    /\ mpc = "mlock"
    /\ m_mlock' = "failed"
    /\ m_stderr' = Append(m_stderr, "warning: mlockall failed")
    /\ si' = start_idx
    /\ mpc' = "loopsi"
    /\ UNCHANGED <<rep, mlog, m_trials, started, m_uaf, m_failed, m_exit>>
    /\ UNCHANGED <<m_cfg, m_heap, m_data, m_out>>

\* line 100: the test of the sweep; lines 101-119: the declarations of a
\* new configuration; line 210: return 0
M_LoopSizes ==
    /\ mpc = "loopsi"
    /\ IF si <= end_idx
       THEN /\ mpc' = "alloc_buf"
            /\ started' = Append(started, CurX)
            /\ buf' = NullBuf /\ bufcopy' = NullBuf
            /\ results_st' = "null" /\ sorted_st' = "null"
            /\ results' = <<>> /\ sorted' = <<>>
            /\ m_trials' = 0
            /\ UNCHANGED m_exit
       ELSE /\ mpc' = "exit"
            /\ m_exit' = 0
            /\ UNCHANGED <<started, buf, bufcopy, results_st, sorted_st,
                           results, sorted, m_trials>>
    /\ mlog' = <<>>
    /\ UNCHANGED <<si, rep, t_delta, m_live, m_uaf, m_mlock, m_failed, m_stderr>>
    /\ UNCHANGED <<m_cfg, m_out>>

\* exit(1) after a diagnostic: lines 121-122, 125-126, 135-136, 166-167, 180-181
Die(what, msg) ==
    /\ m_failed' = what
    /\ m_stderr' = Append(m_stderr, msg)
    /\ m_exit' = 1
    /\ mpc' = "exit"

\* lines 120-123
M_AllocBuf ==
    /\ mpc = "alloc_buf"
    /\ \/ /\ buf' = LiveBuf
          /\ m_live' = m_live + 1
          /\ mpc' = "alloc_bufcopy"
          /\ UNCHANGED <<m_failed, m_stderr, m_exit>>
       \/ /\ Die("buf", "posix_memalign buf failed")
          /\ UNCHANGED <<buf, m_live>>
    /\ UNCHANGED <<si, rep, mlog, m_trials, started, m_uaf, m_mlock,
                   bufcopy, results_st, sorted_st>>
    /\ UNCHANGED <<m_cfg, m_data, m_out>>

\* lines 124-127
M_AllocBufcopy ==
    /\ mpc = "alloc_bufcopy"
    /\ \/ /\ bufcopy' = LiveBuf
          /\ m_live' = m_live + 1
          /\ mpc' = "memset"
          /\ UNCHANGED <<m_failed, m_stderr, m_exit>>
       \/ /\ Die("bufcopy", "posix_memalign bufcopy failed")
          /\ UNCHANGED <<bufcopy, m_live>>
    /\ UNCHANGED <<si, rep, mlog, m_trials, started, m_uaf, m_mlock,
                   buf, results_st, sorted_st>>
    /\ UNCHANGED <<m_cfg, m_data, m_out>>

\* lines 129-130
M_Memset ==
    /\ mpc = "memset"
    /\ buf' = [buf EXCEPT !.fill = 90, !.cached = TRUE]
    /\ bufcopy' = [bufcopy EXCEPT !.fill = 165, !.cached = TRUE]
    /\ m_uaf' = (m_uaf \/ Bad(buf) \/ Bad(bufcopy))
    /\ mpc' = "alloc_results"
    /\ UNCHANGED <<si, rep, mlog, m_trials, started, results_st, sorted_st, m_live>>
    /\ UNCHANGED <<m_cfg, m_env, m_data, m_out>>

\* lines 133-137: malloc(sizeof(uint64_t) * REPEAT); the contents are not set
M_AllocResults ==
    /\ mpc = "alloc_results"
    /\ \/ /\ results_st' = "live"
          /\ results' = [k \in 1..REPEAT |-> -1]
          /\ m_live' = m_live + 1
          /\ mpc' = "warmup"
          /\ UNCHANGED <<m_failed, m_stderr, m_exit>>
       \/ /\ Die("results", "malloc results fail")
          /\ UNCHANGED <<results_st, results, m_live>>
    /\ UNCHANGED <<si, rep, mlog, m_trials, started, m_uaf, m_mlock,
                   buf, bufcopy, sorted_st, sorted, t_delta>>
    /\ UNCHANGED <<m_cfg, m_out>>

\* lines 140-145: five untimed copies, then both buffers flushed; line 148: rep = 0
M_Warmup ==
    /\ mpc = "warmup"
    /\ buf' = [buf EXCEPT !.cached = FALSE]
    /\ bufcopy' = [bufcopy EXCEPT !.fill = buf.fill, !.cached = FALSE]
    /\ m_uaf' = (m_uaf \/ Bad(buf) \/ Bad(bufcopy))
    /\ rep' = 0
    /\ mpc' = "looprep"
    /\ UNCHANGED <<si, mlog, m_trials, started, results_st, sorted_st, m_live>>
    /\ UNCHANGED <<m_cfg, m_env, m_data, m_out>>

\* a loop that stops one trial early
TrialsLeftOffByOne(r, n) == r + 1 < n

\* line 148: rep < REPEAT
TrialsLeft(r, n) == r < n

M_LoopTrials ==
    /\ mpc = "looprep"
    /\ mpc' = IF TrialsLeft(rep, REPEAT) THEN "flush_buf" ELSE "fopen"
    /\ mlog' = <<>>
    /\ UNCHANGED <<si, rep, m_trials, started, m_uaf>>
    /\ UNCHANGED <<m_cfg, m_env, m_heap, m_data, m_out>>

\* line 150: flush_buffer(buf, size)
M_FlushBuf ==
    /\ mpc = "flush_buf"
    /\ buf' = [buf EXCEPT !.cached = FALSE]
    /\ m_uaf' = (m_uaf \/ Bad(buf))
    /\ mlog' = Append(mlog, Ev("flush", "buf"))
    /\ mpc' = "flush_bufcopy"
    /\ UNCHANGED <<si, rep, m_trials, started, bufcopy, results_st, sorted_st, m_live>>
    /\ UNCHANGED <<m_cfg, m_env, m_data, m_out>>

\* line 151: flush_buffer(bufcopy, size)
M_FlushBufcopy ==
    /\ mpc = "flush_bufcopy"
    /\ bufcopy' = [bufcopy EXCEPT !.cached = FALSE]
    /\ m_uaf' = (m_uaf \/ Bad(bufcopy))
    /\ mlog' = Append(mlog, Ev("flush", "bufcopy"))
    /\ mpc' = "start"
    /\ UNCHANGED <<si, rep, m_trials, started, buf, results_st, sorted_st, m_live>>
    /\ UNCHANGED <<m_cfg, m_env, m_data, m_out>>

\* line 153: t0 = rdtsc_start()
M_Start ==
    /\ mpc = "start"
    /\ mlog' = Append(mlog, Ev("rdtsc_start", "-"))
    /\ mpc' = "memcpy"
    /\ UNCHANGED <<si, rep, m_trials, started, m_uaf>>
    /\ UNCHANGED <<m_cfg, m_env, m_heap, m_data, m_out>>

\* line 154: memcpy(bufcopy, buf, size)
M_Memcpy ==
    /\ mpc = "memcpy"
    /\ buf' = [buf EXCEPT !.cached = TRUE]
    /\ bufcopy' = [bufcopy EXCEPT !.fill = buf.fill, !.cached = TRUE]
    /\ m_uaf' = (m_uaf \/ Bad(buf) \/ Bad(bufcopy))
    /\ mlog' = Append(mlog, [op |-> "memcpy", buf |-> "bufcopy<-buf",
                            n |-> CurSize,
                            cold |-> ~buf.cached /\ ~bufcopy.cached])
    /\ m_trials' = m_trials + 1
    /\ mpc' = "end"
    /\ UNCHANGED <<si, rep, started, results_st, sorted_st, m_live>>
    /\ UNCHANGED <<m_cfg, m_env, m_data, m_out>>

\* line 155: t1 = rdtsc_end(); the copy took lat[rep] cycles
M_End ==
    /\ mpc = "end"
    /\ t_delta' = lat[rep + 1]
    /\ mlog' = Append(mlog, Ev("rdtsc_end", "-"))
    /\ mpc' = "store"
    /\ UNCHANGED <<si, rep, m_trials, started, m_uaf, results, sorted>>
    /\ UNCHANGED <<m_cfg, m_env, m_heap, m_out>>

\* line 157: results[rep] = t1 - t0; line 148: ++rep
M_Store ==
    /\ mpc = "store"
    /\ results' = [results EXCEPT ![rep + 1] = t_delta]
    /\ m_uaf' = (m_uaf \/ results_st # "live")
    /\ mlog' = Append(mlog, [op |-> "store", buf |-> "results", n |-> rep])
    /\ rep' = rep + 1
    /\ mpc' = "looprep"
    /\ UNCHANGED <<si, m_trials, started, sorted, t_delta>>
    /\ UNCHANGED <<m_cfg, m_env, m_heap, m_out>>


CurFname == Fname(CurX, CurSize)

\* lines 162-164: fopen(fname, "w") succeeds
M_FopenOk ==
    /\ mpc = "fopen"
    /\ fs' = [fs EXCEPT ![CurFname] = OpenForWrite(@)]
    /\ opened' = Append(opened, CurFname)
    /\ mlog' = Append(mlog, Ev("fopen", "file"))
    /\ mpc' = "write"
    /\ UNCHANGED <<si, rep, m_trials, started, m_uaf, report>>
    /\ UNCHANGED <<m_cfg, m_env, m_heap, m_data>>

\* a failed fopen that gives up the current size only and goes on with
\* the next one
M_FopenFailNextSize ==
    /\ mpc = "fopen"
    /\ m_failed' = "fopen"
    /\ m_stderr' = Append(m_stderr, "failed to open for writing")
    /\ buf' = [buf EXCEPT !.st = "freed"]
    /\ bufcopy' = [bufcopy EXCEPT !.st = "freed"]
    /\ results_st' = "freed"
    /\ m_live' = m_live - 3
    /\ si' = si + 1
    /\ mpc' = "loopsi"
    /\ UNCHANGED <<rep, mlog, m_trials, started, m_uaf, m_mlock, m_exit, sorted_st>>
    /\ UNCHANGED <<m_cfg, m_data, m_out>>

\* lines 165-168: fopen fails: the diagnostic and exit(1)
M_FopenFail ==
    /\ mpc = "fopen"
    /\ Die("fopen", "failed to open for writing")
    /\ UNCHANGED <<si, rep, mlog, m_trials, started, m_uaf, m_mlock>>
    /\ UNCHANGED <<m_cfg, m_heap, m_data, m_out>>

\* lines 169-174: the header, one row per trial, fclose
M_WriteCsv ==
    /\ mpc = "write"
    /\ fs' = [fs EXCEPT ![CurFname].data =
                 @ \o CsvHeader \o CsvRows(results, REPEAT)]
    /\ m_uaf' = (m_uaf \/ results_st # "live")
    /\ mlog' = Append(mlog, Ev("fprintf", "file"))
    /\ mpc' = "alloc_sorted"
    /\ UNCHANGED <<si, rep, m_trials, started, opened, report>>
    /\ UNCHANGED <<m_cfg, m_env, m_heap, m_data>>

\* lines 178-182
M_AllocSorted ==
    /\ mpc = "alloc_sorted"
    /\ \/ /\ sorted_st' = "live"
          /\ sorted' = [k \in 1..REPEAT |-> -1]
          /\ m_live' = m_live + 1
          /\ mpc' = "stats"
          /\ UNCHANGED <<m_failed, m_stderr, m_exit>>
       \/ /\ Die("sorted", "malloc sorted fail")
          /\ UNCHANGED <<sorted_st, sorted, m_live>>
    /\ UNCHANGED <<si, rep, mlog, m_trials, started, m_uaf, m_mlock,
                   buf, bufcopy, results_st, results, t_delta>>
    /\ UNCHANGED <<m_cfg, m_out>>

\* lines 183-202: the sorted copy, the statistics, the report line
M_Stats ==
    /\ mpc = "stats"
    /\ sorted' = qsort(results)
    /\ report' = Append(report, [size |-> CurSize] @@
                                Summarize(results, qsort(results), REPEAT))
    /\ m_uaf' = (m_uaf \/ results_st # "live" \/ sorted_st # "live")
    /\ mpc' = "free"
    /\ UNCHANGED <<si, rep, mlog, m_trials, started, results, t_delta, fs, opened>>
    /\ UNCHANGED <<m_cfg, m_env, m_heap>>

\* a release that forgets the results array
M_FreeLeaksResults ==
    /\ mpc = "free"
    /\ sorted_st' = "freed"
    /\ buf' = [buf EXCEPT !.st = "freed"]
    /\ bufcopy' = [bufcopy EXCEPT !.st = "freed"]
    /\ m_uaf' = (m_uaf \/ sorted_st # "live" \/ Bad(buf) \/ Bad(bufcopy))
    /\ m_live' = m_live - 3
    /\ si' = si + 1
    /\ mpc' = "loopsi"
    /\ UNCHANGED <<rep, mlog, m_trials, started, results_st>>
    /\ UNCHANGED <<m_cfg, m_env, m_data, m_out>>

\* lines 204-207: free(sorted); free(results); free(buf); free(bufcopy);
\* line 100: ++si
M_Free ==
    /\ mpc = "free"
    /\ sorted_st' = "freed"
    /\ results_st' = "freed"
    /\ buf' = [buf EXCEPT !.st = "freed"]
    /\ bufcopy' = [bufcopy EXCEPT !.st = "freed"]
    /\ m_uaf' = (m_uaf \/ sorted_st # "live" \/ results_st # "live"
                       \/ Bad(buf) \/ Bad(bufcopy))
    /\ m_live' = m_live - 4
    /\ si' = si + 1
    /\ mpc' = "loopsi"
    /\ UNCHANGED <<rep, mlog, m_trials, started>>
    /\ UNCHANGED <<m_cfg, m_env, m_data, m_out>>

(* ============ flush_buffer, memtest_allsizes.c 46-54 =================== *)
(* (dram_row_policy.c 45-52 is the same function)                          *)

\* posix_memalign(&p, alignment, size): an address that is a multiple of
\* the alignment; both programs pass 64 (memtest_allsizes.c 120, 124;
\* dram_row_policy.c 59, 60)
posix_memalign(alignment) == {a \in 0..MaxBufAddr : a % alignment = 0}

\* clflush (%0): the line that holds the address
LineOf(addr) == addr \div LINE

AllLines == 0..LineOf(MaxBufAddr + MaxFlushSize + LINE)

\* a loop that stops before a final partial line
MoreToFlushWholeLinesOnly(o, size) == o + LINE <= size

\* line 49: off < size
MoreToFlush(o, size) == o < size

F_Init ==
    /\ fpc = "loop"
    /\ fbuf \in posix_memalign(64)
    /\ fsize \in 1..MaxFlushSize
    /\ off = 0
    /\ cache \in SUBSET {l \in AllLines : l <= LineOf(MaxBufAddr + MaxFlushSize)}
    /\ pending = {}
    /\ flog = <<>>
    /\ rd = [line |-> -1, hit |-> FALSE]

\* lines 49-51: one iteration: clflush_line(p + off); off += line
F_FlushLine ==
    /\ fpc = "loop"
    /\ MoreToFlush(off, fsize)
    /\ pending' = pending \cup {LineOf(fbuf + off)}
    /\ flog' = Append(flog, LineOf(fbuf + off))
    /\ off' = off + LINE
    /\ UNCHANGED <<fpc, fbuf, fsize, cache, rd>>

\* line 49: the loop ends
F_LoopEnd ==
    /\ fpc = "loop"
    /\ ~MoreToFlush(off, fsize)
    /\ fpc' = "fence"
    /\ UNCHANGED <<fbuf, fsize, off, cache, pending, flog, rd>>

\* line 53: mfence: every clflush issued before it has taken effect
F_Fence ==
    /\ fpc = "fence"
    /\ cache' = cache \ pending
    /\ pending' = {}
    /\ flog' = Append(flog, -1)
    /\ fpc' = "ret"
    /\ UNCHANGED <<fbuf, fsize, off, rd>>

\* the caller reads one byte of the region after the return
F_Read ==
    /\ fpc = "ret"
    /\ \E k \in 0..(fsize - 1) :
          /\ rd' = [line |-> LineOf(fbuf + k), hit |-> LineOf(fbuf + k) \in cache]
          /\ cache' = cache \cup {LineOf(fbuf + k)}
    /\ fpc' = "read"
    /\ UNCHANGED <<fbuf, fsize, off, pending, flog>>

(* ========================= specifications ============================== *)

\* the other program is not running
D_Idle ==
    /\ dpc = "off" /\ i = 0 /\ row1 = NullBuf /\ row2 = NullBuf
    /\ first_access = <<>> /\ second_access = <<>> /\ different_row_access = <<>>
    /\ sum_first = 0 /\ sum_second = 0 /\ sum_diff = 0
    /\ conclusion = <<>> /\ dlog = <<>> /\ d_live = 0 /\ d_uaf = FALSE
    /\ d_mlock = "none" /\ d_trials = 0 /\ d_stderr = <<>> /\ d_exit = -1

M_Idle ==
    /\ mpc = "off" /\ argv = <<>> /\ start_idx = 0 /\ end_idx = 0
    /\ si = 0 /\ rep = 0 /\ buf = NullBuf /\ bufcopy = NullBuf
    /\ results_st = "null" /\ sorted_st = "null" /\ results = <<>> /\ sorted = <<>>
    /\ t_delta = 0 /\ lat = <<>> /\ fs = <<>> /\ opened = <<>> /\ mlog = <<>>
    /\ m_trials = 0 /\ started = <<>> /\ report = <<>> /\ m_live = 0
    /\ m_uaf = FALSE /\ m_mlock = "none" /\ m_failed = "none"
    /\ m_stderr = <<>> /\ m_exit = -1

F_Idle ==
    /\ fpc = "off" /\ fbuf = 0 /\ fsize = 0 /\ off = 0 /\ cache = {}
    /\ pending = {} /\ flog = <<>> /\ rd = [line |-> -1, hit |-> FALSE]

D(A) == A /\ UNCHANGED <<mvars, fvars>>
M(A) == A /\ UNCHANGED <<dvars, fvars>>
F(A) == A /\ UNCHANGED <<dvars, mvars>>

FlushNext == F(F_FlushLine) \/ F(F_LoopEnd) \/ F(F_Fence) \/ F(F_Read)

DramNext ==
    \/ D(D_AllocOk) \/ D(D_AllocFail) \/ D(D_Memset) \/ D(D_MlockOk)
    \/ D(D_MlockFail) \/ D(D_Loop) \/ D(D_Flush1)
    \/ D(D_Start("start1", "read1")) \/ D(D_ReadRow1("read1", "end1"))
    \/ D(D_End1) \/ D(D_Start2) \/ D(D_ReadRow1("read2", "end2"))
    \/ D(D_End2) \/ D(D_Flush2) \/ D(D_Start("start3", "read3"))
    \/ D(D_Read3) \/ D(D_End3) \/ D(D_Stats) \/ D(D_Classify) \/ D(D_Free)

MemNext ==
    \/ M(M_Args) \/ M(M_MlockOk) \/ M(M_MlockFail) \/ M(M_LoopSizes)
    \/ M(M_AllocBuf) \/ M(M_AllocBufcopy) \/ M(M_Memset) \/ M(M_AllocResults)
    \/ M(M_Warmup) \/ M(M_LoopTrials) \/ M(M_FlushBuf) \/ M(M_FlushBufcopy)
    \/ M(M_Start) \/ M(M_Memcpy) \/ M(M_End) \/ M(M_Store)
    \/ M(M_FopenOk) \/ M(M_FopenFail) \/ M(M_WriteCsv) \/ M(M_AllocSorted)
    \/ M(M_Stats) \/ M(M_Free)

Init ==
    \/ D_Init /\ M_Idle /\ F_Idle
    \/ M_Init /\ D_Idle /\ F_Idle
    \/ F_Init /\ D_Idle /\ M_Idle

Next == DramNext \/ MemNext \/ FlushNext

\* one of the two programs runs, or flush_buffer is followed line by line
Spec == Init /\ [][Next]_vars


(* ============================== claims ================================= *)

IsPrefix(a, b) == Len(a) <= Len(b) /\ \A k \in 1..Len(a) : a[k] = b[k]

Last(q) == q[Len(q)]

(* ---- C1 ---- *)
\* the events of one trial of dram_row_policy, in the order the claim gives
SameRowTrial ==
    <<Ev("flush", "row1"),
      Ev("rdtsc_start", "-"), Ev("miss", "row1"), Ev("rdtsc_end", "-"),
      Ev("rdtsc_start", "-"), Ev("hit", "row1"), Ev("rdtsc_end", "-"),
      Ev("flush", "row2"),
      Ev("rdtsc_start", "-"), Ev("miss", "row2"), Ev("rdtsc_end", "-")>>

\* C1: in every trial of the same-row experiment the events are, in order:
\* flush_buffer(row1), the first timed read of row1, the second timed read of
\* the same address, and only then the flush of row2; row1 is not flushed
\* between the two timed reads (the second read finds the line cached).
C1_SameRowOrder ==
    /\ IsPrefix(dlog, SameRowTrial)
    /\ \A p \in 1..Len(dlog) :
          dlog[p] = Ev("flush", "row1") => p = 1
    /\ \A p \in 1..Len(dlog) :
          dlog[p] = Ev("flush", "row2") =>
              Len(SelectSeq(SubSeq(dlog, 1, p), LAMBDA e : e.op = "rdtsc_end")) = 2
    /\ dpc \in {"flush1", "start1", "read1", "end1", "start2", "read2", "end2",
                "flush2", "start3", "read3", "end3"} => i < TestIterations

\* the second timed read of the last trial has ended, row2 not yet flushed
C1_Witness ==
    /\ dpc = "flush2" /\ i = TestIterations - 1
    /\ dlog = SubSeq(SameRowTrial, 1, 7)

(* ---- C2 ---- *)
NamesFor(a, b) ==
    [k \in 1..(b - a + 1) |-> Fname(exponents[a + k], SizeOf(exponents[a + k]))]

\* C2 as stated: after a failed fopen for one size the sweep goes on, and
\* every later exponent is still measured and exported.
C2_Original ==
    (m_failed = "fopen" /\ si < end_idx) =>
        \/ mpc # "exit"
        \/ /\ started = SubSeq(exponents, start_idx + 1, end_idx + 1)
           /\ \A k \in (si + 2)..(end_idx + 1) :
                 \E j \in 1..Len(opened) :
                    opened[j] = Fname(exponents[k], SizeOf(exponents[k]))

\* C2 (amended): when fopen fails for a size, the process writes the
\* diagnostic to stderr and exits with code 1: the sizes before it were
\* measured and exported, that size was measured but neither exported nor
\* summarized, and no later size is measured or exported.
C2_FopenFailureIsFatal ==
    m_failed = "fopen" =>
        /\ mpc = "exit" /\ m_exit = 1
        /\ m_stderr # <<>> /\ Last(m_stderr) = "failed to open for writing"
        /\ started = SubSeq(exponents, start_idx + 1, si + 1)
        /\ opened = NamesFor(start_idx, si - 1)
        /\ Len(report) = si - start_idx
        /\ m_trials = REPEAT

\* fopen failed in the middle of a sweep
C2_Witness ==
    m_failed = "fopen" /\ start_idx < si /\ si < end_idx /\ mpc = "exit"

(* ---- C3 ---- *)
\* C3: an argument that parses to a member of the configured set selects
\* exactly that exponent (start_idx = end_idx = its index) and a completed
\* run writes exactly one CSV, named for that size; no argument, or one that
\* parses to anything else, selects all 13 sizes in array order, without a
\* diagnostic or an exit, and a completed run writes the 13 files in order.
C3_SizeSelection ==
    [][ /\ (mpc = "args" /\ mpc' # "args") =>
              /\ IF Len(argv) >= 1
                    /\ \E k \in 1..n_sizes : exponents[k] = atoi(argv[1])
                 THEN \E k \in 1..n_sizes :
                         /\ exponents[k] = atoi(argv[1])
                         /\ start_idx' = k - 1 /\ end_idx' = k - 1
                 ELSE start_idx' = 0 /\ end_idx' = 12
              /\ m_stderr' = <<>> /\ m_exit' = -1 /\ mpc' = "mlock"
        /\ (mpc' = "exit" /\ m_exit' = 0) =>
              /\ started' = SubSeq(exponents, start_idx' + 1, end_idx' + 1)
              /\ opened' = NamesFor(start_idx', end_idx')
              /\ Len(opened') \in {1, 13}
              /\ start_idx' = end_idx' => Len(opened') = 1
        /\ mpc' \notin {"off", "args"} =>
              /\ si' >= 0 /\ si' <= end_idx' + 1
              /\ IsPrefix(opened', NamesFor(start_idx', end_idx'))
      ]_vars

\* the run selected exponent 12 alone and completed: one file, for 4096 bytes
C3_Witness ==
    /\ mpc = "exit" /\ m_exit = 0
    /\ start_idx = 6 /\ end_idx = 6
    /\ opened = <<Fname(12, 4096)>>
    /\ fs[Fname(12, 4096)].exists
    /\ started = <<12>>

(* ---- C4 ---- *)
RegionLines(b, size) == {LineOf(b + k) : k \in 0..(size - 1)}

\* C4: once flush_buffer has returned, a clflush was executed on every line
\* that overlaps [buf, buf+size), also when size is not a multiple of 64;
\* the one mfence follows the last clflush; no line of the region is cached,
\* so the read of any byte of the region that follows is a miss.
C4_FlushCoversRegion ==
    /\ fpc \in {"ret", "read"} =>
          /\ \A l \in RegionLines(fbuf, fsize) :
                \E p \in 1..(Len(flog) - 1) : flog[p] = l
          /\ Last(flog) = -1
          /\ \A p \in 1..(Len(flog) - 1) : flog[p] # -1
          /\ pending = {}
    /\ fpc = "ret" => RegionLines(fbuf, fsize) \cap cache = {}
    /\ fpc = "read" => rd.line \in RegionLines(fbuf, fsize) /\ ~rd.hit
    /\ fpc \in {"loop", "fence"} => \A p \in 1..Len(flog) : flog[p] # -1

\* a size that ends in a partial line, whose last byte is read after the flush
C4_Witness ==
    /\ fpc = "read"
    /\ fsize > LINE /\ fsize % LINE # 0
    /\ rd.line = LineOf(fbuf + fsize - 1)
    /\ Len(flog) = 4

(* ---- C5 ---- *)
\* m is the k-th smallest (k = 1 for the minimum) of the samples of s
IsKthSmallest(m, s, k) ==
    /\ \E p \in 1..Len(s) : s[p] = m
    /\ Cardinality({p \in 1..Len(s) : s[p] < m}) < k
    /\ Cardinality({p \in 1..Len(s) : s[p] <= m}) >= k

IsAscending(s) == \A p \in 1..(Len(s) - 1) : s[p] <= s[p + 1]

SameSamples(a, b) ==
    /\ Len(a) = Len(b)
    /\ \A v \in {a[p] : p \in 1..Len(a)} \cup {b[p] : p \in 1..Len(b)} :
          Cardinality({p \in 1..Len(a) : a[p] = v})
              = Cardinality({p \in 1..Len(b) : b[p] = v})

\* C5 as stated: the reported median is the element at zero-based index
\* count/2 of the ascending series, the middle value for an odd count and
\* the lower of the two middle elements for an even count.
C5_Original ==
    mpc = "free" =>
        LET m == Last(report).median
            n == REPEAT
        IN  /\ IsKthSmallest(m, results, (n \div 2) + 1)
            /\ n % 2 = 0 => IsKthSmallest(m, results, n \div 2)

\* C5 (amended): the reported median is the element at zero-based index
\* count/2 of the ascending-sorted series: the middle value for an odd count
\* and the upper of the two middle elements for an even count (no averaging).
C5_MedianIsUpperMiddle ==
    mpc = "free" =>
        LET m == Last(report).median
            n == REPEAT
        IN  /\ IsAscending(sorted) /\ SameSamples(sorted, results)
            /\ Last(report).count = n
            /\ m = sorted[(n \div 2) + 1]
            /\ IsKthSmallest(m, results, (n \div 2) + 1)
            /\ n % 2 = 1 => IsKthSmallest(m, results, (n + 1) \div 2)

\* an even count whose two middle elements differ, recorded out of order
C5_Witness ==
    /\ mpc = "free" /\ REPEAT % 2 = 0
    /\ sorted[REPEAT \div 2] < sorted[(REPEAT \div 2) + 1]
    /\ results # sorted

(* ---- C6 ---- *)
\* C6: the run reports exactly one verdict, OPEN-ROW exactly when
\* mean_first / mean_second > 1.5 (the means being the sums over
\* TEST_ITERATIONS: 2 * sum_first > 3 * sum_second), CLOSED-ROW otherwise,
\* so also at a ratio of exactly 1.5.
C6_Threshold ==
    /\ dpc \in {"free", "exit"} /\ d_exit # 1 =>
          /\ Len(conclusion) = 1
          /\ conclusion[1] \in {"OPEN-ROW", "CLOSED-ROW"}
          /\ conclusion[1] = "OPEN-ROW" <=>
                2 * SumSeq(first_access) > 3 * SumSeq(second_access)
    /\ ~(dpc \in {"free", "exit"} /\ d_exit # 1) => conclusion = <<>>

\* a ratio of exactly 1.5 reported CLOSED-ROW
C6_Witness ==
    /\ dpc = "exit" /\ d_exit = 0
    /\ 2 * SumSeq(first_access) = 3 * SumSeq(second_access)
    /\ conclusion = <<"CLOSED-ROW">>

(* ---- C7 ---- *)
\* the text up to the first newline, and what follows it
RECURSIVE FirstLine(_)
FirstLine(t) ==
    IF t = <<>> \/ Head(t) = "\n" THEN <<>> ELSE <<Head(t)>> \o FirstLine(Tail(t))

RECURSIVE SplitLines(_)
SplitLines(t) ==
    IF t = <<>> THEN <<>>
    ELSE LET l == FirstLine(t)
         IN  IF Len(l) = Len(t) THEN <<l>>
             ELSE <<l>> \o SplitLines(SubSeq(t, Len(l) + 2, Len(t)))

RECURSIVE FieldBefore(_)
FieldBefore(l) ==
    IF l = <<>> \/ Head(l) = "," THEN <<>> ELSE <<Head(l)>> \o FieldBefore(Tail(l))

AllDigits(f) == f # <<>> /\ \A p \in 1..Len(f) : IsDigit(f[p])

RECURSIVE ReadDecimal(_, _)
ReadDecimal(f, acc) ==
    IF f = <<>> THEN acc ELSE ReadDecimal(Tail(f), 10 * acc + DigitVal(Head(f)))

\* a row "<rep>,<cycles>" read back: <<rep, cycles>>, or <<-1, -1>> when the
\* line is not two decimal fields
ReadRow(l) ==
    LET a == FieldBefore(l)
        b == IF Len(a) < Len(l) THEN SubSeq(l, Len(a) + 2, Len(l)) ELSE <<>>
    IN  IF AllDigits(a) /\ AllDigits(b)
        THEN <<ReadDecimal(a, 0), ReadDecimal(b, 0)>>
        ELSE <<-1, -1>>

\* C7: the file written for a completed series of N samples is the header
\* line rep,cycles and then exactly N rows, row i holding i and the i-th
\* sample in trial order, each line newline-terminated; what the file held
\* before the run is gone (the file is opened to overwrite).
C7_CsvRoundTrip ==
    mpc \in {"alloc_sorted", "stats", "free"} =>
        LET data == fs[CurFname].data
            lines == SplitLines(data)
        IN  /\ fs[CurFname].exists
            /\ data # <<>> /\ Last(data) = "\n"
            /\ Len(lines) = REPEAT + 1
            /\ lines[1] = <<"r", "e", "p", ",", "c", "y", "c", "l", "e", "s">>
            /\ \A r \in 0..(REPEAT - 1) :
                  ReadRow(lines[r + 2]) = <<r, results[r + 1]>>

\* a rerun (the other files still hold the previous run's rows) has just
\* rewritten a file from samples that differ from trial to trial
C7_Witness ==
    /\ mpc = "alloc_sorted"
    /\ \E f \in FNames : fs[f].data = StaleData
    /\ REPEAT >= 2 /\ results[1] > results[2]
    /\ Len(fs[CurFname].data) < Len(StaleData)

(* ---- C8 ---- *)
AllocFailures == {"buf", "bufcopy", "results", "sorted"}

\* C8 as stated: a failed allocation ends the process with a diagnostic and
\* a non-zero code before any timed trial of that configuration has run.
C8_Original ==
    m_failed \in AllocFailures =>
        /\ mpc = "exit" /\ m_exit > 0
        /\ m_stderr # <<>>
        /\ m_trials = 0

\* C8 (amended): a failed allocation is fatal: the diagnostic goes to
\* stderr, the process exits with code 1 and no later configuration starts;
\* for the source, the destination and the results array (row1, row2 in
\* dram_row_policy) no timed trial of that configuration has run, while the
\* sorted copy is allocated after that configuration's REPEAT trials and its
\* CSV export.  A failed mlockall only writes a warning: the run exits
\* non-zero only after a failed allocation or fopen, and a completed run has
\* measured the selected configurations with their full trial counts and
\* exits 0 whether or not pinning succeeded.
C8_AllocFatalPinningNot ==
    /\ m_failed \in AllocFailures =>
          /\ mpc = "exit" /\ m_exit = 1
          /\ m_stderr # <<>>
          /\ Last(m_stderr) \in {"posix_memalign buf failed",
                                 "posix_memalign bufcopy failed",
                                 "malloc results fail", "malloc sorted fail"}
          /\ started = SubSeq(exponents, start_idx + 1, si + 1)
          /\ m_failed # "sorted" =>
                m_trials = 0 /\ opened = NamesFor(start_idx, si - 1)
          /\ m_failed = "sorted" =>
                m_trials = REPEAT /\ opened = NamesFor(start_idx, si)
    /\ m_exit = 1 => m_failed # "none"
    /\ m_mlock = "failed" => m_stderr # <<>> /\ m_stderr[1] = "warning: mlockall failed"
    /\ (mpc = "exit" /\ m_exit = 0) =>
          /\ m_failed = "none"
          /\ started = SubSeq(exponents, start_idx + 1, end_idx + 1)
          /\ Len(report) = Len(started)
          /\ \A k \in 1..Len(report) :
                /\ report[k].size = SizeOf(started[k])
                /\ report[k].count = RepeatFor(SizeOf(started[k]))
    /\ d_exit = 1 =>
          /\ dpc = "exit" /\ d_trials = 0 /\ d_mlock = "none"
          /\ d_stderr = <<"Memory allocation failed">>
    /\ d_mlock = "failed" => d_stderr = <<"Warning: mlockall failed">>
    /\ (dpc = "exit" /\ d_exit = 0) => d_trials = 3 * TestIterations

\* pinning failed, the sweep went on, and a later allocation failed
C8_Witness ==
    /\ m_mlock = "failed" /\ m_failed = "sorted" /\ m_exit = 1
    /\ start_idx < si

(* ---- C9 ---- *)
\* the events of one trial of the copy sweep
CopyTrial(size, r) ==
    <<Ev("flush", "buf"), Ev("flush", "bufcopy"),
      Ev("rdtsc_start", "-"),
      [op |-> "memcpy", buf |-> "bufcopy<-buf", n |-> size, cold |-> TRUE],
      Ev("rdtsc_end", "-"),
      [op |-> "store", buf |-> "results", n |-> r]>>

ExportEvents == <<Ev("fopen", "file"), Ev("fprintf", "file")>>

TrialPcs == {"flush_buf", "flush_bufcopy", "start", "memcpy", "end", "store"}
AfterLoopPcs == {"fopen", "write", "alloc_sorted", "stats", "free"}

\* C9: each trial of a size is flush source, flush destination,
\* rdtsc_start, one memcpy of size bytes from source to destination,
\* rdtsc_end, one sample stored at index rep; nothing but the memcpy lies
\* between rdtsc_start and rdtsc_end; the loop runs exactly REPEAT trials,
\* and the export and the statistics start only when all REPEAT samples of
\* the size are recorded.
C9_TrialShape ==
    /\ mpc \in TrialPcs =>
          /\ rep < REPEAT
          /\ IsPrefix(mlog, SubSeq(CopyTrial(CurSize, rep), 1, 5))
          /\ m_trials \in {rep, rep + 1}
          /\ \A k \in 1..REPEAT : (results[k] >= 0) <=> (k <= rep)
    /\ mpc = "looprep" /\ mlog # <<>> => mlog = CopyTrial(CurSize, rep - 1)
    /\ mpc \in AfterLoopPcs =>
          /\ rep = REPEAT /\ m_trials = REPEAT
          /\ \A k \in 1..REPEAT : results[k] >= 0
          /\ IsPrefix(mlog, ExportEvents)
    /\ \A p \in 1..Len(mlog) :
          mlog[p].op \in {"fopen", "fprintf"} =>
              \A q \in 1..Len(mlog) : mlog[q].op # "rdtsc_start"

\* all REPEAT (several) samples of a size recorded, the export about to begin
C9_Witness ==
    /\ mpc = "fopen" /\ REPEAT >= 2 /\ rep = REPEAT
    /\ \A k \in 1..REPEAT : results[k] >= 0

(* ---- C10 ---- *)
Released(st) == st = "freed"

\* C10: no buffer is used after its release; a configuration that
\* completes releases its four buffers (row1 and row2 in dram_row_policy)
\* exactly once, before the next configuration allocates, so at most one
\* configuration's buffers are live at any time.
C10_BufferLifecycle ==
    /\ ~m_uaf /\ ~d_uaf
    /\ m_live >= 0 /\ m_live <= 4
    /\ d_live >= 0 /\ d_live <= 2
    /\ m_live = Cardinality({b \in {"buf", "bufcopy", "results", "sorted"} :
                                CASE b = "buf" -> buf.st = "live"
                                  [] b = "bufcopy" -> bufcopy.st = "live"
                                  [] b = "results" -> results_st = "live"
                                  [] b = "sorted" -> sorted_st = "live"})
    /\ mpc \in {"loopsi", "alloc_buf"} => m_live = 0
    /\ (mpc = "loopsi" /\ si > start_idx) =>
          /\ Released(buf.st) /\ Released(bufcopy.st)
          /\ Released(results_st) /\ Released(sorted_st)
    /\ (mpc = "exit" /\ m_exit = 0) => m_live = 0
    /\ (dpc = "exit" /\ d_exit = 0) =>
          Released(row1.st) /\ Released(row2.st) /\ d_live = 0
    /\ dpc \in {"memset", "mlock", "loop", "flush1", "start1", "read1", "end1",
                "start2", "read2", "end2", "flush2", "start3", "read3", "end3",
                "stats", "classify", "free"} =>
          row1.st = "live" /\ row2.st = "live"

\* a second configuration is about to allocate: the first one's four
\* buffers are released
C10_Witness ==
    /\ mpc = "alloc_buf" /\ si > start_idx
    /\ m_live = 0 /\ Len(report) >= 1

=============================================================================
